---- MODULE Spec2Model ----
(***************************************************************************)
(* Model of the research-rag-pipeline repository:                          *)
(*   pipeline/data_loader.py  OptimizedDocumentLoader (worker pool, lazy)  *)
(*   pipeline/search.py       RAGSearch (load-or-build, search_and_summarize)*)
(*   app.py                   the demo script                              *)
(* Strings that the code inspects (file suffixes, texts, the context) are  *)
(* sequences of one-character strings, so that lower() and join() compute. *)
(***************************************************************************)
EXTENDS Integers, Sequences, FiniteSets, Bags, TLC

\* ------------------------------------------------------------------ bounds
MaxFiles == 3
MaxWorkers == 2
MaxItems == 2
MaxRows == 3
MaxTopK == 4
MaxDist == 1

\* load_all_documents(data_dir, max_workers=4)
DefaultMaxWorkers == 4
\* search_and_summarize(query, top_k=3) in the scripts
DemoTopK == 3

None == "None"

\* ------------------------------------------------------- strings and lower()
ExtPdf == <<".", "p", "d", "f">>
ExtTxt == <<".", "t", "x", "t">>
ExtCsv == <<".", "c", "s", "v">>
ExtXlsx == <<".", "x", "l", "s", "x">>
ExtDocx == <<".", "d", "o", "c", "x">>
ExtJson == <<".", "j", "s", "o", "n">>
ExtMd == <<".", "m", "d">>

LowerCharIdentity(c) == c

\* str.lower() on one character (the letters that occur in the modelled names)
LowerChar(c) ==
    CASE c = "P" -> "p" [] c = "D" -> "d" [] c = "F" -> "f" [] c = "T" -> "t"
      [] c = "X" -> "x" [] c = "C" -> "c" [] c = "S" -> "s" [] c = "V" -> "v"
      [] c = "L" -> "l" [] c = "O" -> "o" [] c = "J" -> "j" [] c = "N" -> "n"
      [] c = "M" -> "m"
      [] OTHER -> c

Lower(s) == [i \in DOMAIN s |-> LowerChar(s[i])]

\* ------------------------------------------------------------- LOADER_MAP
LOADER_MAP ==
    (ExtPdf :> "PyPDFLoader") @@ (ExtTxt :> "TextLoader") @@
    (ExtCsv :> "CSVLoader") @@ (ExtXlsx :> "UnstructuredExcelLoader") @@
    (ExtDocx :> "Docx2txtLoader") @@ (ExtJson :> "JSONLoader")

\* dict.get(extension): the class, or None
LoaderMapGet(extension) ==
    IF extension \in DOMAIN LOADER_MAP THEN LOADER_MAP[extension] ELSE None

\* ------------------------------------------------------ the data directory
\* One item of the tree walk: its suffix as written, the same suffix in lower
\* case (written out, not computed), whether it is a regular file, and what a
\* parser does with it: raise, or return one record per text.
Item(sfx, low, isf, cor, txts) ==
    [suffix |-> sfx, lowered |-> low, is_file |-> isf, corrupt |-> cor,
     texts |-> txts]

TextA == <<"a">>
TextB == <<"b">>
Empty == <<>>

\* The items the pool specification draws its directories from.
PoolItems ==
    { Item(ExtPdf, ExtPdf, TRUE, FALSE, <<TextA, Empty>>),
      Item(<<".", "T", "X", "T">>, ExtTxt, TRUE, TRUE, <<TextB>>),
      Item(ExtCsv, ExtCsv, TRUE, FALSE, <<TextB>>),
      Item(ExtJson, ExtJson, TRUE, FALSE, <<>>),
      Item(ExtMd, ExtMd, TRUE, FALSE, <<TextA>>) }

SeqsUpTo(S, n) == UNION { [1..k -> S] : k \in 0..n }

\* A document record: the file it came from, its position in the parser's
\* output, and its text.
Doc(i, j, t) == [source |-> i, page |-> j, text |-> t]

\* loader_class(str(file_path)).load(): the external parser.  It raises on a
\* corrupt file and otherwise returns the file's records in order.
ParserLoad(d, i) ==
    IF d[i].corrupt THEN [raised |-> TRUE, docs |-> <<>>]
    ELSE [raised |-> FALSE,
          docs |-> [j \in DOMAIN d[i].texts |-> Doc(i, j, d[i].texts[j])]]

VARIABLES
    dir,          \* the items of data_path.rglob('*'), in enumeration order
    max_workers,  \* self.max_workers
    op,           \* the loader method being executed, or None
    pc,           \* position of the calling thread in that method
    files,        \* the list of files to load (indices into dir)
    nsub,         \* how many of them have been submitted
    queue,        \* executor work queue (submitted, not started)
    running,      \* files being parsed right now
    fut,          \* per file: state and result of its future
    documents,    \* the local list `documents`
    ncollected,   \* per file: how often its result was appended
    nsubmitted,   \* per file: how often it was handed to a parser thread
    logs,         \* log records emitted: <<level, file>>
    ret,          \* the last eager call's return: [op, docs], or NoRet
    lazyPos,      \* load_lazy: index in files of the current file
    lazyBuf,      \* load_lazy: records of the current file not yet yielded
    yielded,      \* load_lazy: records yielded so far
    lazyDone,     \* load_lazy: the generator is exhausted
    waiting,      \* as_completed: futures not yet yielded to the loop
    lastCall,     \* the last direct _load_single_file call and what it gave
    entry,        \* who runs the facade: "app.py", "search.py" or "caller"
    fpc,          \* position of that program
    faissExists,  \* os.path.exists(persist_dir/faiss.index)
    metaExists,   \* os.path.exists(persist_dir/metadata.pkl)
    diskRows,     \* the metadata rows persisted with the index
    existedAtCtor,\* what RAGSearch.__init__ saw: [faiss, meta], or None
    store,        \* self.vectorstore: its metadata rows, or None if not ready
    nLoad,        \* calls of self.vectorstore.load() by the constructor
    nBuild,       \* calls of build_from_documents by the constructor
    nIngest,      \* calls of load_all_documents by the constructor
    top_k,        \* argument of the current search_and_summarize call
    qdist,        \* distance of each row to the current query
    results,      \* search_and_summarize: results
    context,      \* search_and_summarize: context
    nQuery,       \* vector queries issued by the current call
    nLlm,         \* llm.invoke calls issued by the current call
    outcome       \* how the current call (or the script) ended, or None

loaderVars == <<dir, max_workers, op, pc, files, nsub, queue, running, fut,
                documents, ncollected, nsubmitted, logs, ret, lazyPos, lazyBuf, yielded, lazyDone, waiting>>

poolVars == <<nsub, queue, fut, documents, ncollected, nsubmitted, waiting>>
lazyVars == <<lazyPos, lazyBuf, yielded, lazyDone>>

facadeVars == <<entry, fpc, faissExists, metaExists, diskRows, existedAtCtor,
                store, nLoad, nBuild, nIngest, top_k, qdist, results, context,
                nQuery, nLlm, outcome>>

otherVars == <<lastCall, facadeVars>>

vars == <<loaderVars, lastCall, facadeVars>>

Idx == 1..Len(dir)

\* _collect_files with a case-sensitive membership test
CollectFilesCaseSensitive(d) ==
    LET F[n \in 0..Len(d)] ==
            IF n = 0 THEN <<>>
            ELSE IF d[n].is_file /\ d[n].suffix \in DOMAIN LOADER_MAP
                 THEN Append(F[n - 1], n) ELSE F[n - 1]
    IN F[Len(d)]

\* _collect_files: the supported regular files, in enumeration order
CollectFiles(d) ==
    LET F[n \in 0..Len(d)] ==
            IF n = 0 THEN <<>>
            ELSE IF d[n].is_file /\ Lower(d[n].suffix) \in DOMAIN LOADER_MAP
                 THEN Append(F[n - 1], n) ELSE F[n - 1]
    IN F[Len(d)]

\* _load_single_file that lets the parser's partial output through
LoadSingleFileNoCatch(d, i) ==
    LET extension == Lower(d[i].suffix)
        loader_class == LoaderMapGet(extension)
    IN IF loader_class = None
       THEN [docs |-> <<>>, log |-> "warning", parser |-> None]
       ELSE [docs |-> [j \in DOMAIN d[i].texts |-> Doc(i, j, d[i].texts[j])],
             log |-> "debug", parser |-> loader_class]

\* _load_single_file: dispatch on the lower-cased suffix, catch parse errors
LoadSingleFile(d, i) ==
    LET extension == Lower(d[i].suffix)
        loader_class == LoaderMapGet(extension)
    IN IF loader_class = None
       THEN [docs |-> <<>>, log |-> "warning", parser |-> None]
       ELSE LET r == ParserLoad(d, i)
            IN IF r.raised
               THEN [docs |-> <<>>, log |-> "error", parser |-> loader_class]
               ELSE [docs |-> r.docs, log |-> "debug", parser |-> loader_class]

NoFuture == [state |-> "none", docs |-> <<>>]

\* no eager method has returned
NoRet == [op |-> None, docs |-> <<>>]

ResetPool ==
    /\ nsub' = 0
    /\ queue' = <<>>
    /\ fut' = [i \in Idx |-> NoFuture]
    /\ documents' = <<>>
    /\ ncollected' = [i \in Idx |-> 0]
    /\ nsubmitted' = [i \in Idx |-> 0]
    /\ waiting' = {}
    /\ logs' = {}

\* a fresh generator (and none at all while an eager method runs)
ResetLazy ==
    /\ lazyPos' = 0
    /\ lazyBuf' = <<>>
    /\ yielded' = <<>>
    /\ lazyDone' = FALSE

\* a loader object on which no method has run yet
LoaderIdle ==
    /\ op = None
    /\ pc = "idle"
    /\ files = <<>>
    /\ nsub = 0
    /\ queue = <<>>
    /\ running = {}
    /\ fut = [i \in Idx |-> NoFuture]
    /\ documents = <<>>
    /\ ncollected = [i \in Idx |-> 0]
    /\ nsubmitted = [i \in Idx |-> 0]
    /\ logs = {}
    /\ ret = NoRet
    /\ lazyPos = 0
    /\ lazyBuf = <<>>
    /\ yielded = <<>>
    /\ lazyDone = FALSE
    /\ waiting = {}

Range(s) == { s[k] : k \in DOMAIN s }

\* ---------------------------------------------------- load_all_parallel
LoadAllParallelEntry ==
    /\ pc = "idle"
    /\ op' = "load_all_parallel"
    /\ files' = CollectFiles(dir)
    /\ ResetPool
    /\ ret' = NoRet
    /\ ResetLazy
    /\ pc' = "submit"
    /\ UNCHANGED <<dir, max_workers, running>>

CallLoadAllParallel == LoadAllParallelEntry /\ UNCHANGED otherVars

\* ----------------------------------------------------------- load_by_type
FileTypeLists == { {}, {ExtPdf}, {ExtPdf, ExtTxt}, {ExtCsv, ExtJson} }

\* filtered_files = [f for f in files if f.suffix.lower() in file_types]
FilterFiles(fs, file_types) ==
    SelectSeq(fs, LAMBDA f : Lower(dir[f].suffix) \in file_types)

CallLoadByType(file_types) ==
    /\ pc = "idle"
    /\ op' = "load_by_type"
    /\ files' = FilterFiles(CollectFiles(dir), file_types)
    /\ ResetPool
    /\ ret' = NoRet
    /\ ResetLazy
    /\ pc' = "submit"
    /\ UNCHANGED <<dir, max_workers, running>>
    /\ UNCHANGED otherVars

\* ------------------------------------------------- the executor and its use
\* executor.submit(self._load_single_file, f), for the files in list order
Submit ==
    /\ pc = "submit"
    /\ nsub < Len(files)
    /\ LET f == files[nsub + 1]
       IN /\ queue' = Append(queue, f)
          /\ fut' = [fut EXCEPT ![f] = [state |-> "pending", docs |-> <<>>]]
          /\ nsubmitted' = [nsubmitted EXCEPT ![f] = @ + 1]
    /\ nsub' = nsub + 1
    /\ UNCHANGED <<dir, max_workers, op, pc, files, running, documents,
                   ncollected, logs, ret, lazyVars, waiting>>
    /\ UNCHANGED otherVars

\* for future in as_completed(...): the loop starts once all are submitted
BeginAsCompleted ==
    /\ pc = "submit"
    /\ nsub = Len(files)
    /\ waiting' = Range(files)
    /\ pc' = "as_completed"
    /\ UNCHANGED <<dir, max_workers, op, files, nsub, queue, running, fut,
                   documents, ncollected, nsubmitted, logs, ret, lazyVars>>
    /\ UNCHANGED otherVars

\* a pool that starts a thread per work item
WorkerAvailableUnbounded == TRUE

\* ThreadPoolExecutor(max_workers=self.max_workers): a queued item starts
\* only while fewer than max_workers threads are busy
WorkerAvailable == Cardinality(running) < max_workers

StartTask ==
    /\ op \in {"load_all_parallel", "load_by_type"}
    /\ queue # <<>>
    /\ WorkerAvailable
    /\ LET f == Head(queue)
       IN /\ running' = running \cup {f}
          /\ fut' = [fut EXCEPT ![f].state = "running"]
    /\ queue' = Tail(queue)
    /\ UNCHANGED <<dir, max_workers, op, pc, files, nsub, documents,
                   ncollected, nsubmitted, logs, ret,
                   lazyVars, waiting>>
    /\ UNCHANGED otherVars

\* the worker's _load_single_file(f) returns and completes the future
FinishTask(f) ==
    /\ op \in {"load_all_parallel", "load_by_type"}
    /\ f \in running
    /\ LET r == LoadSingleFile(dir, f)
       IN /\ fut' = [fut EXCEPT ![f] = [state |-> "finished", docs |-> r.docs]]
          /\ logs' = logs \cup {<<r.log, f>>}
    /\ running' = running \ {f}
    /\ UNCHANGED <<dir, max_workers, op, pc, files, nsub, queue, documents,
                   ncollected, nsubmitted, ret, lazyVars,
                   waiting>>
    /\ UNCHANGED otherVars

\* an iteration that leaves the future among those still to be yielded
AfterYieldKeep(w, f) == w

\* as_completed yields each future once
AfterYield(w, f) == w \ {f}

\* one iteration of the as_completed loop: documents.extend(future.result())
Collect(f) ==
    /\ pc = "as_completed"
    /\ f \in waiting
    /\ fut[f].state = "finished"
    /\ documents' = documents \o fut[f].docs
    /\ ncollected' = [ncollected EXCEPT ![f] = @ + 1]
    /\ waiting' = AfterYield(waiting, f)
    /\ UNCHANGED <<dir, max_workers, op, pc, files, nsub, queue, running, fut,
                   nsubmitted, logs, ret, lazyVars>>
    /\ UNCHANGED otherVars

\* as_completed is exhausted: leave the loop and the with block
ExitLoop ==
    /\ pc = "as_completed"
    /\ waiting = {}
    /\ pc' = "shutdown"
    /\ UNCHANGED <<dir, max_workers, op, files, running, logs, ret, lazyVars, poolVars>>
    /\ UNCHANGED otherVars

\* executor.__exit__ is shutdown(wait=True); then `return documents`
Return ==
    /\ pc = "shutdown"
    /\ queue = <<>>
    /\ running = {}
    /\ ret' = [op |-> op, docs |-> documents]
    /\ pc' = "idle"
    /\ op' = None
    /\ UNCHANGED <<dir, max_workers, files, running, logs, lazyVars, poolVars>>
    /\ UNCHANGED otherVars

\* -------------------------------------------------------------- load_lazy
CallLoadLazy ==
    /\ pc = "idle"
    /\ op' = "load_lazy"
    /\ files' = CollectFiles(dir)
    /\ ResetLazy
    /\ logs' = {}
    /\ pc' = "lazy_next"
    /\ UNCHANGED <<dir, max_workers, running, ret, poolVars>>
    /\ UNCHANGED otherVars

\* a generator that moves on to the next file at any time
InnerLoopDoneAlways == TRUE

\* `for doc in docs: yield doc` has yielded every record of the current file
InnerLoopDone == lazyBuf = <<>>

\* for file_path in files: docs = self._load_single_file(file_path) begins
LazyBeginParse ==
    /\ pc = "lazy_next"
    /\ InnerLoopDone
    /\ lazyPos < Len(files)
    /\ lazyPos' = lazyPos + 1
    /\ running' = running \cup {files[lazyPos + 1]}
    /\ pc' = "lazy_parse"
    /\ UNCHANGED <<dir, max_workers, op, files, logs, ret,
                   lazyBuf, yielded, lazyDone, poolVars>>
    /\ UNCHANGED otherVars

\* ... and returns its records
LazyEndParse ==
    /\ pc = "lazy_parse"
    /\ LET f == files[lazyPos]
           r == LoadSingleFile(dir, f)
       IN /\ lazyBuf' = r.docs
          /\ logs' = logs \cup {<<r.log, f>>}
          /\ running' = running \ {f}
    /\ pc' = "lazy_next"
    /\ UNCHANGED <<dir, max_workers, op, files, ret,
                   lazyPos, yielded, lazyDone, poolVars>>
    /\ UNCHANGED otherVars

\* for doc in docs: yield doc
LazyYield ==
    /\ pc = "lazy_next"
    /\ lazyBuf # <<>>
    /\ yielded' = Append(yielded, Head(lazyBuf))
    /\ lazyBuf' = Tail(lazyBuf)
    /\ UNCHANGED <<dir, max_workers, op, pc, files, running, logs,
                   ret, lazyPos, lazyDone, poolVars>>
    /\ UNCHANGED otherVars

\* the outer loop ends: StopIteration
LazyStop ==
    /\ pc = "lazy_next"
    /\ lazyBuf = <<>>
    /\ lazyPos = Len(files)
    /\ lazyDone' = TRUE
    /\ pc' = "idle"
    /\ op' = None
    /\ UNCHANGED <<dir, max_workers, files, running, logs, ret, lazyPos, lazyBuf, yielded, poolVars>>
    /\ UNCHANGED otherVars

\* the consumer stops iterating after a record (break): generator closed
LazyClose ==
    /\ pc = "lazy_next"
    /\ yielded # <<>>
    /\ pc' = "idle"
    /\ op' = None
    /\ UNCHANGED <<dir, max_workers, files, running, logs, ret, lazyVars, poolVars>>
    /\ UNCHANGED otherVars

\* ------------------------------------------------ direct dispatch calls
\* The suffixes the dispatch specification draws from, each with its
\* lower-case form written out.
DispatchSuffixes ==
    { <<ExtPdf, ExtPdf>>, <<ExtTxt, ExtTxt>>, <<ExtCsv, ExtCsv>>,
      <<ExtXlsx, ExtXlsx>>, <<ExtDocx, ExtDocx>>, <<ExtJson, ExtJson>>,
      <<<<".", "P", "D", "F">>, ExtPdf>>, <<<<".", "T", "x", "t">>, ExtTxt>>,
      <<<<".", "C", "S", "V">>, ExtCsv>>, <<<<".", "X", "L", "S", "X">>, ExtXlsx>>,
      <<<<".", "D", "o", "c", "X">>, ExtDocx>>, <<<<".", "J", "S", "O", "N">>, ExtJson>>,
      <<ExtMd, ExtMd>>, <<<<".", "M", "D">>, ExtMd>>, <<<<>>, <<>>>>,
      <<<<".", "p", "d">>, <<".", "p", "d">>>>,
      <<<<".", "x", "l", "s">>, <<".", "x", "l", "s">>>>,
      <<<<".", "D", "O", "C">>, <<".", "d", "o", "c">>>> }

DispatchItems ==
    { Item(p[1], p[2], isf, FALSE, <<TextA>>) :
        p \in DispatchSuffixes, isf \in BOOLEAN }
    \cup { Item(ExtPdf, ExtPdf, TRUE, TRUE, <<TextA>>) }

NoCall == [file |-> 0, docs |-> <<>>, log |-> None, parser |-> None]

\* files = self._collect_files()
DirectCollectFiles ==
    /\ pc = "idle"
    /\ files' = CollectFiles(dir)
    /\ UNCHANGED <<dir, max_workers, op, pc, running, logs, ret, lazyVars,
                   poolVars, lastCall, facadeVars>>

\* self._load_single_file(file_path), for any path
DirectLoadSingleFile(i) ==
    /\ pc = "idle"
    /\ LET r == LoadSingleFile(dir, i)
       IN /\ lastCall' = [file |-> i, docs |-> r.docs, log |-> r.log,
                          parser |-> r.parser]
          /\ logs' = logs \cup {<<r.log, i>>}
    /\ UNCHANGED <<dir, max_workers, op, pc, files, running, ret, lazyVars,
                   poolVars, facadeVars>>

\* ------------------------------------------------------------ the facade
\* A metadata mapping: the keys it has and, if it has "text", the text.
Meta(ks, t) == [keys |-> ks, text |-> t]

MetaKinds ==
    { Meta({}, Empty), Meta({"source"}, Empty), Meta({"text"}, Empty),
      Meta({"text", "source"}, TextA) }

\* bool(metadata): a mapping is true when it is not empty
Truthy(m) == m.keys # {}

\* metadata.get("text", "")
GetText(m) == IF "text" \in m.keys THEN m.text ELSE Empty

Separator == <<"\n", "\n">>

\* "\n\n".join(texts)
Join(texts) ==
    LET J[n \in 0..Len(texts)] ==
            IF n = 0 THEN <<>>
            ELSE IF n = 1 THEN texts[1]
            ELSE J[n - 1] \o Separator \o texts[n]
    IN J[Len(texts)]

Min(a, b) == IF a < b THEN a ELSE b

\* FaissVectorStore.build_from_documents: one metadata row per record, in
\* record order, holding the record's text
BuildRows(docs) == [j \in DOMAIN docs |-> Meta({"text", "source"}, docs[j].text)]

\* FaissVectorStore.query: the top_k rows closest to the query as
\* (metadata, distance) pairs, best first, ties in row order; all rows when
\* top_k exceeds the number of rows
Query(rows, dist, k) ==
    LET n == Len(rows)
        Before(i, j) == dist[i] < dist[j] \/ (dist[i] = dist[j] /\ i < j)
        Rank(i) == 1 + Cardinality({ j \in 1..n : Before(j, i) })
        RowAt(p) == CHOOSE i \in 1..n : Rank(i) = p
    IN [p \in 1..Min(k, n) |->
          [metadata |-> rows[RowAt(p)], distance |-> dist[RowAt(p)],
           index |-> RowAt(p)]]

\* the existence test with `or` in place of `and`
StoreExistsEither(f, m) == f \/ m

\* os.path.exists(faiss_path) and os.path.exists(meta_path)
StoreExists(f, m) == f /\ m

\* FaissVectorStore.load(): fails if either artifact is missing
LoadFails(f, m) == ~(f /\ m)

\* a query that ignores the caller's top_k and uses the default
SearchResultsDefaultK(rows, dist, k) == Query(rows, dist, 5)

\* results = self.vectorstore.query(query, top_k=top_k)
SearchResults(rows, dist, k) == Query(rows, dist, k)

\* texts = [r["metadata"].get("text", "") for r in results if r["metadata"]]
Texts(rs) ==
    LET kept == SelectSeq(rs, LAMBDA r : Truthy(r.metadata))
    IN [p \in DOMAIN kept |-> GetText(kept[p].metadata)]

\* the fixed message, as one token
NoRelevant == <<"No relevant documents found.">>

NotSeen == [seen |-> FALSE, faiss |-> FALSE, meta |-> FALSE]
NoStore == [ready |-> FALSE, rows |-> <<>>]
NoOutcome == [kind |-> "none", value |-> <<>>]
Returned(v) == [kind |-> "returned", value |-> v]
Raised(e) == [kind |-> "raised", value |-> <<e>>]

\* a failure of llm.invoke turned into a return value
LlmFailureSwallowed == Returned(NoRelevant)

\* a failure of llm.invoke is not caught: it leaves search_and_summarize
LlmFailureOutcome == Raised("llm.invoke")

\* return the context instead of the response
SummaryValueContext(content, ctx) == ctx

\* return response.content
SummaryValue(content, ctx) == content

\* what the text-generation service may answer
Responses == { <<"S">>, <<"Z">> }

Scripts == {"app.py", "search.py"}

FacadeIdle ==
    /\ existedAtCtor = NotSeen
    /\ store = NoStore
    /\ nLoad = 0
    /\ nBuild = 0
    /\ nIngest = 0
    /\ top_k = 0
    /\ qdist = <<>>
    /\ results = <<>>
    /\ context = <<>>
    /\ nQuery = 0
    /\ nLlm = 0
    /\ outcome = NoOutcome

\* app.py: store = FaissVectorStore("faiss_store"); store.load()
\* The script is run from its own directory, so "faiss_store" is the
\* directory RAGSearch() resolves by default; the loaded store is a local
\* of the script and not the facade's.
AppStoreLoad ==
    /\ entry = "app.py"
    /\ fpc = "start"
    /\ IF LoadFails(faissExists, metaExists)
       THEN fpc' = "load_failed" /\ outcome' = Raised("load")
       ELSE fpc' = "construct" /\ UNCHANGED outcome
    /\ UNCHANGED <<loaderVars, lastCall, entry, faissExists, metaExists,
                   diskRows, existedAtCtor, store, nLoad, nBuild, nIngest,
                   top_k, qdist, results, context, nQuery, nLlm>>

\* RAGSearch.__init__, artifacts not both present: the build branch up to
\* the call of load_all_documents(data_dir)
CtorIngest ==
    /\ fpc = "construct"
    /\ ~StoreExists(faissExists, metaExists)
    /\ existedAtCtor' = [seen |-> TRUE, faiss |-> faissExists, meta |-> metaExists]
    /\ nIngest' = nIngest + 1
    /\ LoadAllParallelEntry
    /\ fpc' = "ingesting"
    /\ UNCHANGED <<lastCall, entry, faissExists, metaExists, diskRows, store,
                   nLoad, nBuild, top_k, qdist, results, context, nQuery,
                   nLlm, outcome>>

\* ... self.vectorstore.build_from_documents(docs), then the LLM client
CtorBuild ==
    /\ fpc = "ingesting"
    /\ pc = "idle"
    /\ ret.op # None
    /\ store' = [ready |-> TRUE, rows |-> BuildRows(ret.docs)]
    /\ diskRows' = BuildRows(ret.docs)
    /\ faissExists' = TRUE
    /\ metaExists' = TRUE
    /\ nBuild' = nBuild + 1
    /\ fpc' = "ready"
    /\ UNCHANGED <<loaderVars, lastCall, entry, existedAtCtor, nLoad, nIngest,
                   top_k, qdist, results, context, nQuery, nLlm, outcome>>

\* RAGSearch.__init__, both artifacts present: self.vectorstore.load()
CtorLoad ==
    /\ fpc = "construct"
    /\ StoreExists(faissExists, metaExists)
    /\ existedAtCtor' = [seen |-> TRUE, faiss |-> faissExists, meta |-> metaExists]
    /\ nLoad' = nLoad + 1
    /\ IF LoadFails(faissExists, metaExists)
       THEN fpc' = "load_failed" /\ outcome' = Raised("load")
                                 /\ UNCHANGED store
       ELSE fpc' = "ready" /\ store' = [ready |-> TRUE, rows |-> diskRows]
                           /\ UNCHANGED outcome
    /\ UNCHANGED <<loaderVars, lastCall, entry, faissExists, metaExists,
                   diskRows, nBuild, nIngest, top_k, qdist, results, context,
                   nQuery, nLlm>>

\* search_and_summarize(query, top_k) up to the return of the fixed message
\* or the call of self.llm.invoke
Search(k, dist) ==
    /\ fpc = "ready"
    /\ store.ready
    /\ top_k' = k
    /\ qdist' = dist
    /\ LET rs == SearchResults(store.rows, dist, k)
           ctx == Join(Texts(rs))
       IN /\ results' = rs
          /\ context' = ctx
          /\ nQuery' = 1
          /\ IF ctx = <<>>
             THEN /\ outcome' = Returned(NoRelevant)
                  /\ nLlm' = 0
                  /\ fpc' = "returned"
             ELSE /\ outcome' = NoOutcome
                  /\ nLlm' = 1
                  /\ fpc' = "llm_invoke"
    /\ UNCHANGED <<loaderVars, lastCall, entry, faissExists, metaExists,
                   diskRows, existedAtCtor, store, nLoad, nBuild, nIngest>>

\* the service answers: return response.content
LlmRespond(content) ==
    /\ fpc = "llm_invoke"
    /\ outcome' = Returned(SummaryValue(content, context))
    /\ fpc' = "returned"
    /\ UNCHANGED <<loaderVars, lastCall, entry, faissExists, metaExists,
                   diskRows, existedAtCtor, store, nLoad, nBuild, nIngest,
                   top_k, qdist, results, context, nQuery, nLlm>>

\* the service call fails
LlmFail ==
    /\ fpc = "llm_invoke"
    /\ outcome' = LlmFailureOutcome
    /\ fpc' = IF LlmFailureOutcome.kind = "raised" THEN "raised" ELSE "returned"
    /\ UNCHANGED <<loaderVars, lastCall, entry, faissExists, metaExists,
                   diskRows, existedAtCtor, store, nLoad, nBuild, nIngest,
                   top_k, qdist, results, context, nQuery, nLlm>>

\* the scripts: print("Summary:", summary), and the process ends
ScriptPrint ==
    /\ entry \in Scripts
    /\ fpc = "returned"
    /\ fpc' = "exit"
    /\ UNCHANGED <<loaderVars, lastCall, entry, faissExists, metaExists,
                   diskRows, existedAtCtor, store, nLoad, nBuild, nIngest,
                   top_k, qdist, results, context, nQuery, nLlm, outcome>>

\* any other caller goes on (having caught the exception, if any) and is
\* free to call search_and_summarize again
CallerContinue ==
    /\ entry = "caller"
    /\ fpc \in {"returned", "raised"}
    /\ fpc' = "ready"
    /\ top_k' = 0
    /\ qdist' = <<>>
    /\ results' = <<>>
    /\ context' = <<>>
    /\ nQuery' = 0
    /\ nLlm' = 0
    /\ outcome' = NoOutcome
    /\ UNCHANGED <<loaderVars, lastCall, entry, faissExists, metaExists,
                   diskRows, existedAtCtor, store, nLoad, nBuild, nIngest>>

\* ---------------------------------------------------------- specifications
\* the loader on its own: load_all_parallel, load_by_type, load_lazy
Init ==
    /\ dir \in SeqsUpTo(PoolItems, MaxFiles)
    /\ max_workers \in 1..MaxWorkers
    /\ LoaderIdle
    /\ lastCall = NoCall
    /\ entry = None
    /\ fpc = "none"
    /\ faissExists = FALSE
    /\ metaExists = FALSE
    /\ diskRows = <<>>
    /\ FacadeIdle

PoolStep ==
    \/ Submit
    \/ BeginAsCompleted
    \/ StartTask
    \/ \E f \in Idx : FinishTask(f)
    \/ \E f \in Idx : Collect(f)
    \/ ExitLoop
    \/ Return

Next ==
    \/ CallLoadAllParallel
    \/ \E file_types \in FileTypeLists : CallLoadByType(file_types)
    \/ PoolStep
    \/ CallLoadLazy
    \/ LazyBeginParse
    \/ LazyEndParse
    \/ LazyYield
    \/ LazyStop
    \/ LazyClose

Spec == Init /\ [][Next]_vars

\* direct calls of _collect_files and _load_single_file
InitDispatch ==
    /\ dir \in SeqsUpTo(DispatchItems, MaxItems) \ {<<>>}
    /\ max_workers = DefaultMaxWorkers
    /\ LoaderIdle
    /\ lastCall = NoCall
    /\ entry = None
    /\ fpc = "none"
    /\ faissExists = FALSE
    /\ metaExists = FALSE
    /\ diskRows = <<>>
    /\ FacadeIdle

NextDispatch ==
    \/ DirectCollectFiles
    \/ \E i \in Idx : DirectLoadSingleFile(i)

SpecDispatch == InitDispatch /\ [][NextDispatch]_vars

\* the data directories the facade specification ingests
FacadeDirs ==
    { <<>>,
      <<Item(ExtPdf, ExtPdf, TRUE, FALSE, <<TextA, Empty>>)>>,
      <<Item(ExtPdf, ExtPdf, TRUE, FALSE, <<Empty, Empty>>),
        Item(ExtTxt, ExtTxt, TRUE, TRUE, <<TextA>>)>>,
      <<Item(ExtCsv, ExtCsv, TRUE, FALSE, <<TextB>>),
        Item(ExtJson, ExtJson, TRUE, FALSE, <<TextA>>)>> }

\* the facade, run by app.py, by search.py as a script, or by another caller
InitFacade ==
    /\ dir \in FacadeDirs
    /\ max_workers = DefaultMaxWorkers
    /\ LoaderIdle
    /\ lastCall = NoCall
    /\ entry \in Scripts \cup {"caller"}
    /\ fpc = IF entry = "app.py" THEN "start" ELSE "construct"
    /\ faissExists \in BOOLEAN
    /\ metaExists \in BOOLEAN
    /\ diskRows \in IF faissExists /\ metaExists
                   THEN SeqsUpTo(MetaKinds, MaxRows) ELSE {<<>>}
    /\ FacadeIdle

NextFacade ==
    \/ AppStoreLoad
    \/ CtorIngest
    \/ PoolStep
    \/ CtorBuild
    \/ CtorLoad
    \/ \E k \in (IF entry \in Scripts THEN {DemoTopK} ELSE 1..MaxTopK) :
         \E dist \in [1..Len(store.rows) -> 0..MaxDist] : Search(k, dist)
    \/ \E content \in Responses : LlmRespond(content)
    \/ LlmFail
    \/ ScriptPrint
    \/ CallerContinue

SpecFacade == InitFacade /\ [][NextFacade]_vars

\* ------------------------------------------------------------ properties
\* The six supported extensions, written out.
SixExtensions == { <<".", "p", "d", "f">>, <<".", "t", "x", "t">>,
                   <<".", "c", "s", "v">>, <<".", "x", "l", "s", "x">>,
                   <<".", "d", "o", "c", "x">>, <<".", "j", "s", "o", "n">> }

Supported(i) == dir[i].is_file /\ dir[i].lowered \in SixExtensions
Parseable(i) == Supported(i) /\ ~dir[i].corrupt
Unparseable(i) == Supported(i) /\ dir[i].corrupt

\* the records the parser gives for file i
RecordsOf(i) ==
    IF Parseable(i)
    THEN [j \in DOMAIN dir[i].texts |-> Doc(i, j, dir[i].texts[j])]
    ELSE <<>>

DocsFrom(s, i) == SelectSeq(s, LAMBDA d : d.source = i)

Contiguous(s, i) ==
    \A p, q, r \in DOMAIN s :
        (p < q /\ q < r /\ s[p].source = i /\ s[r].source = i) => s[q].source = i

BagOf(s) == [x \in Range(s) |-> Cardinality({ k \in DOMAIN s : s[k] = x })]

\* the records of the first n files of fs, file after file
ConcatRecords(fs, n) ==
    LET C[k \in 0..n] == IF k = 0 THEN <<>> ELSE C[k - 1] \o RecordsOf(fs[k])
    IN C[n]

NoDuplicates(s) == \A p, q \in DOMAIN s : s[p] = s[q] => p = q

ParallelReturned == ret.op = "load_all_parallel"

\* C1: load_all_parallel never gets stuck before it returns, and what it
\* returns holds, for every parseable file, exactly that file's records, and
\* no record of a supported file whose parser raised (nor of any other item).
C1_FailuresSkipped ==
    /\ op = "load_all_parallel" => ENABLED PoolStep
    /\ ParallelReturned =>
         /\ \A i \in Idx : Parseable(i) => DocsFrom(ret.docs, i) = RecordsOf(i)
         /\ \A i \in Idx : ~Parseable(i) => DocsFrom(ret.docs, i) = <<>>
         /\ \A p \in DOMAIN ret.docs : ret.docs[p].source \in Idx

C1_Witness ==
    /\ ParallelReturned
    /\ \E i \in Idx : Unparseable(i) /\ <<"error", i>> \in logs
    /\ \E i \in Idx : Parseable(i) /\ RecordsOf(i) # <<>>
                      /\ DocsFrom(ret.docs, i) = RecordsOf(i)

\* C7: in the eager methods every listed file is submitted at most once and
\* its result appended at most once; when load_all_parallel has returned,
\* every enumerated file was submitted once and appended once, the returned
\* list is as a multiset the union of the per-file record lists, and each
\* file's records are contiguous and in parser order.  The list `documents`
\* changes only in a step of the calling thread.
C7_Inv ==
    /\ NoDuplicates(files)
    /\ \A i \in Idx : nsubmitted[i] <= 1 /\ ncollected[i] <= 1
    /\ ParallelReturned =>
         /\ Range(files) = { i \in Idx : Supported(i) }
         /\ \A i \in Idx : nsubmitted[i] = (IF Supported(i) THEN 1 ELSE 0)
         /\ \A i \in Idx : ncollected[i] = (IF Supported(i) THEN 1 ELSE 0)
         /\ BagOf(ret.docs) = BagOf(ConcatRecords(files, Len(files)))
         /\ Len(ret.docs) = Len(ConcatRecords(files, Len(files)))
         /\ \A i \in Idx : Contiguous(ret.docs, i)
         /\ \A i \in Idx : DocsFrom(ret.docs, i) = RecordsOf(i)

C7_CallerStep ==
    documents' # documents =>
        \/ pc = "idle"
        \/ pc = "as_completed" /\ running' = running /\ fut' = fut
                               /\ queue' = queue

C7_CollectedOnce == []C7_Inv /\ [][C7_CallerStep]_vars

\* two files that finished in the opposite order of their submission
C7_Witness ==
    /\ ParallelReturned
    /\ Len(files) >= 2
    /\ \E p, q \in DOMAIN ret.docs :
          p < q /\ ret.docs[p].source > ret.docs[q].source

\* C8: in the eager methods at most max_workers files are being parsed at a
\* time, and once the method has returned no task is queued or running and
\* every future is finished.
C8_BoundedPool ==
    /\ op \in {"load_all_parallel", "load_by_type"} =>
          Cardinality(running) <= max_workers
    /\ (op = None /\ ret.op # None) =>
          /\ running = {}
          /\ queue = <<>>
          /\ \A i \in Idx : fut[i].state \in {"none", "finished"}
          /\ \A i \in Idx : nsubmitted[i] = 1 => fut[i].state = "finished"

\* the pool is full while work is queued
C8_Witness ==
    /\ op \in {"load_all_parallel", "load_by_type"}
    /\ Cardinality(running) = max_workers
    /\ queue # <<>>

\* C9: load_lazy parses at most one file at a time and none through the pool;
\* what it has yielded plus what it still holds is the records of the files
\* up to the current one, file after file in enumeration order (a failed
\* file adding nothing); a file is being parsed only when every record of
\* the files before it has been yielded; and once exhausted, the yielded
\* records are the same multiset as the last load_all_parallel returned.
C9_LazySequential ==
    /\ op = "load_lazy" =>
         /\ Cardinality(running) <= 1
         /\ queue = <<>>
         /\ files = CollectFiles(dir)
         /\ pc = "lazy_next" =>
              /\ running = {}
              /\ yielded \o lazyBuf = ConcatRecords(files, lazyPos)
         /\ pc = "lazy_parse" =>
              /\ running = {files[lazyPos]}
              /\ yielded = ConcatRecords(files, lazyPos - 1)
    /\ lazyDone => yielded = ConcatRecords(files, Len(files))
    /\ (lazyDone /\ ParallelReturned) =>
         /\ BagOf(yielded) = BagOf(ret.docs)
         /\ Len(yielded) = Len(ret.docs)

\* exhausted after a corrupt file in the middle, the eager result in another
\* order
C9_Witness ==
    /\ lazyDone
    /\ ParallelReturned
    /\ yielded # ret.docs
    /\ \E p \in DOMAIN files : p < Len(files) /\ Unparseable(files[p])

\* C4: a direct _load_single_file call on an item whose lower-cased suffix
\* is one of the six goes to that suffix's parser; on any other suffix it
\* gives no record, logs a warning and uses no parser; and _collect_files
\* lists no item whose lower-cased suffix is outside the six.
C4_Dispatch ==
    /\ lastCall.file # 0 =>
         LET low == dir[lastCall.file].lowered
         IN /\ low = <<".", "p", "d", "f">> => lastCall.parser = "PyPDFLoader"
            /\ low = <<".", "t", "x", "t">> => lastCall.parser = "TextLoader"
            /\ low = <<".", "c", "s", "v">> => lastCall.parser = "CSVLoader"
            /\ low = <<".", "x", "l", "s", "x">> =>
                  lastCall.parser = "UnstructuredExcelLoader"
            /\ low = <<".", "d", "o", "c", "x">> =>
                  lastCall.parser = "Docx2txtLoader"
            /\ low = <<".", "j", "s", "o", "n">> => lastCall.parser = "JSONLoader"
            /\ low \notin SixExtensions =>
                  /\ lastCall.parser = None
                  /\ lastCall.docs = <<>>
                  /\ lastCall.log = "warning"
            /\ lastCall.log = "warning" => low \notin SixExtensions
    /\ \A p \in DOMAIN files : dir[files[p]].lowered \in SixExtensions

\* an upper-case .PDF went to the PDF parser, and _collect_files listed an
\* item written in another case while leaving one out
C4_Witness ==
    /\ lastCall.file # 0
    /\ dir[lastCall.file].suffix # dir[lastCall.file].lowered
    /\ lastCall.parser = "PyPDFLoader"
    /\ \E p \in DOMAIN files : dir[files[p]].suffix # dir[files[p]].lowered
    /\ Len(files) < Len(dir)

Constructed == fpc \in {"ready", "llm_invoke", "returned", "raised", "exit"}

\* C3: a construction that found both artifacts calls load once and neither
\* ingests nor builds; one that found at least one missing ingests once,
\* then builds once from what it ingested, and does not call load.
C3_LoadOrBuild ==
    /\ nLoad + nBuild <= 1
    /\ nBuild <= nIngest
    /\ nIngest <= 1
    /\ existedAtCtor.seen =>
         IF existedAtCtor.faiss /\ existedAtCtor.meta
         THEN nLoad = 1 /\ nBuild = 0 /\ nIngest = 0
         ELSE nLoad = 0 /\ nIngest = 1
    /\ Constructed =>
         /\ existedAtCtor.seen
         /\ nLoad + nBuild = 1
         /\ nBuild = 1 => /\ ParallelReturned
                          /\ Len(store.rows) = Len(ret.docs)
                          /\ \A j \in DOMAIN ret.docs :
                                store.rows[j].text = ret.docs[j].text

\* built although exactly one of the two artifacts was there
C3_Witness ==
    /\ Constructed
    /\ existedAtCtor.faiss # existedAtCtor.meta
    /\ nBuild = 1
    /\ store.rows # <<>>

\* C5: a run of app.py with the persisted artifacts absent does not end
\* with a load failure.
C5_AppBuildsWhenAbsent ==
    (entry = "app.py" /\ ~(faissExists /\ metaExists)) => fpc # "load_failed"

EmptyOrMissingText(m) == "text" \notin m.keys \/ m.text = <<>>

NoNonEmptyText == \A p \in DOMAIN results : EmptyOrMissingText(results[p].metadata)

\* C2: once search_and_summarize has run its query: if no result has a
\* non-empty text, it returns the fixed message and the summarizer is not
\* called; otherwise whatever it returns is the summarizer's response and
\* not the context.
C2_NoResultsMessage ==
    nQuery = 1 =>
        IF NoNonEmptyText
        THEN nLlm = 0 /\ outcome = Returned(NoRelevant)
        ELSE outcome.kind = "returned" =>
                outcome.value \in Responses /\ outcome.value # context

C10_SingleCallNoCatch ==
    /\ nQuery <= 1
    /\ nLlm <= nQuery
    /\ fpc = "llm_invoke" => nQuery = 1 /\ nLlm = 1 /\ context # <<>>
    /\ (fpc \in {"returned", "raised", "exit"} /\ context # <<>>) =>
          nQuery = 1 /\ nLlm = 1
    /\ fpc = "raised" => outcome = Raised("llm.invoke")
    /\ (outcome.kind = "returned" /\ context # <<>>) =>
          outcome.value \in Responses

C10_Witness ==
    /\ fpc = "raised"
    /\ nLlm = 1
    /\ nQuery = 1
    /\ context # <<>>
====
